---- MODULE Spec2Model ----
(***************************************************************************)
(* Model of the shrimp-farming forecast dashboard (src/app.py).            *)
(*                                                                         *)
(* The program is one Dash callback, update_output, over four module-level *)
(* globals (default_values, usd_to_idr, model_sr, model_abw).  A call      *)
(* coerces the 19 submitted values to a parameter dictionary, builds the   *)
(* day array and the two feature matrices, asks the two loaded models for  *)
(* predictions, and derives daily biomass, cumulative biomass, cumulative  *)
(* revenue, four figures and a summary string.                             *)
(*                                                                         *)
(* Numbers are exact decimals m * 10^e (records [m, e], normalised so that *)
(* m carries no trailing zero).  Every arithmetic step of the callback     *)
(* (product, quotient by 1000, running sum) is closed in this              *)
(* representation, so the arithmetic is exact; IEEE-754 rounding of the    *)
(* doubles numpy uses is not modelled.                                     *)
(***************************************************************************)
EXTENDS Integers, Sequences, FiniteSets, TLC

(***************************************************************************)
(* Bounds of the model.                                                    *)
(***************************************************************************)
\* largest days_until_harvest a request submits explicitly
MaxDays == 3
\* largest n_clicks a request carries
MaxClicks == 1

(***************************************************************************)
(* Exact decimal numbers.                                                  *)
(***************************************************************************)
RECURSIVE Pow10(_)
Pow10(k) == IF k <= 0 THEN 1 ELSE 10 * Pow10(k - 1)

RECURSIVE Norm(_, _)
Norm(m, e) ==
    IF m = 0 THEN [m |-> 0, e |-> 0]
    ELSE IF m % 10 = 0 THEN Norm(m \div 10, e + 1)
    ELSE [m |-> m, e |-> e]

\* the integer n as a number
D(n) == Norm(n, 0)
\* the decimal literal m * 10^e
Lit(m, e) == Norm(m, e)

Min(a, b) == IF a <= b THEN a ELSE b
Abs(n) == IF n < 0 THEN -n ELSE n

DAdd(a, b) ==
    LET e == Min(a.e, b.e)
    IN  Norm(a.m * Pow10(a.e - e) + b.m * Pow10(b.e - e), e)

DMul(a, b) == Norm(a.m * b.m, a.e + b.e)

\* a / b for a divisor that is a power of ten (the callback divides by 1000 only)
DDiv(a, b) == Norm(a.m, a.e - b.e)

DNeg(a) == [m |-> -a.m, e |-> a.e]
DLe(a, b) == DAdd(b, DNeg(a)).m >= 0
\* the Python int a number with e >= 0 denotes
IntOf(a) == a.m * Pow10(a.e)

\* Python int(val) on a number: truncation toward zero
PyInt(a) ==
    IF a.e >= 0 THEN a
    ELSE IF a.m >= 0 THEN Norm(a.m \div Pow10(-a.e), 0)
    ELSE Norm(-((-a.m) \div Pow10(-a.e)), 0)

\* Python None
None == [none |-> TRUE]

(***************************************************************************)
(* default_values: keys in dictionary order, and the value of each key.    *)
(***************************************************************************)
Keys ==
    << "days_until_harvest", "cycle_age_days", "total_seed", "area",
       "total_shrimp", "total_weight", "feed_quantity",
       "morning_temperature", "evening_temperature",
       "morning_do", "evening_do", "morning_salinity", "evening_salinity",
       "morning_pH", "evening_pH", "nitrate", "nitrite", "alkalinity",
       "price_per_kg" >>

KeySet == {Keys[i] : i \in 1..Len(Keys)}

InitialDefaults ==
    [ days_until_harvest  |-> D(60),
      cycle_age_days      |-> D(60),
      total_seed          |-> D(100000),
      area                |-> D(1000),
      total_shrimp        |-> D(95000),
      total_weight        |-> D(1500),
      feed_quantity       |-> D(1200),
      morning_temperature |-> D(28),
      evening_temperature |-> D(27),
      morning_do          |-> Lit(72, -1),
      evening_do          |-> Lit(68, -1),
      morning_salinity    |-> D(35),
      evening_salinity    |-> D(34),
      morning_pH          |-> Lit(78, -1),
      evening_pH          |-> Lit(77, -1),
      nitrate             |-> Lit(25, -2),
      nitrite             |-> Lit(2, -2),
      alkalinity          |-> D(120),
      price_per_kg        |-> D(12) ]

InitialUsdToIdr == 15000


(***************************************************************************)
(* The two loaded models.  The pickled regressors are opaque; a model is   *)
(* stood for by a deterministic linear stub in the day feature, one        *)
(* prediction per feature row.                                             *)
(***************************************************************************)
SrStubs ==
    { [start |-> D(100), decay |-> Lit(5, -1)],
      [start |-> D(90),  decay |-> D(0)] }

AbwStubs ==
    { [slope |-> D(10), intercept |-> D(0)],
      [slope |-> D(-1), intercept |-> D(2)],
      [slope |-> D(0),  intercept |-> Lit(4, -6)] }

\* model_sr.predict(features_sr)
PredictSr(model, features) ==
    [i \in 1..Len(features) |->
        DAdd(model.start, DNeg(DMul(model.decay, features[i][1])))]

\* model_abw.predict(features_abw)
PredictAbw(model, features) ==
    [i \in 1..Len(features) |->
        DAdd(DMul(model.slope, features[i][1]), model.intercept)]

(***************************************************************************)
(* The values a request carries: one per dcc.Input, in key order.          *)
(***************************************************************************)
\* days_until_harvest values a request submits
DaysChoices == {D(n) : n \in (-1)..MaxDays}
\* total_shrimp values a request submits
ShrimpChoices == {D(-100), D(100)}
\* price_per_kg values a request submits
PriceChoices == {D(-1), D(1)}
\* the other fields carry the value the layout put in the input (the default)
\* or an edited, non-integer value that differs from field to field
Variants == {"layout", "edited"}

IndexOf(key) == CHOOSE i \in 1..Len(Keys) : Keys[i] = key

EditedValue(key) == Lit(10 * (IndexOf(key) + 1) + 5, -1)

\* the sets of fields a request leaves empty (None)
Masks == {{}} \cup {{k} : k \in KeySet} \cup {KeySet}

InputValues(mask, dh, ts, price, variant) ==
    [i \in 1..Len(Keys) |->
        IF Keys[i] \in mask THEN None
        ELSE IF Keys[i] = "days_until_harvest" THEN dh
        ELSE IF Keys[i] = "total_shrimp" THEN ts
        ELSE IF Keys[i] = "price_per_kg" THEN price
        ELSE IF variant = "layout" THEN InitialDefaults[Keys[i]]
        ELSE EditedValue(Keys[i])]

(***************************************************************************)
(* State.                                                                  *)
(***************************************************************************)
VARIABLES
    default_values,         \* module global
    usd_to_idr,             \* module global
    model_sr,               \* module global, loaded at start-up
    model_abw,              \* module global, loaded at start-up
    pc,                     \* "idle", "returned" or "raised"
    n_clicks,               \* argument of the last call
    input_values,           \* argument of the last call
    inputs,                 \* locals of the last call
    days,
    features_sr,
    sr_predictions,
    features_abw,
    abw_predictions,
    daily_biomass,
    cumulative_biomass,
    cumulative_revenue_idr,
    error,                  \* exception the last call raised, "" if none
    result                  \* the five outputs the last call returned

globals == <<default_values, usd_to_idr, model_sr, model_abw>>
locals == <<inputs, days, features_sr, sr_predictions, features_abw,
            abw_predictions, daily_biomass, cumulative_biomass,
            cumulative_revenue_idr>>
vars == <<globals, pc, n_clicks, input_values, locals, error, result>>

\* the callback returned nothing
NoResult == [none |-> TRUE]


(***************************************************************************)
(* update_output, step by step.                                            *)
(***************************************************************************)
\* Coerce with the fallback for a missing value lost
CoerceMissingAsZero(val, key) ==
    IF val # None THEN PyInt(val) ELSE D(0)

\* int(val) if val is not None else default_values[key]
Coerce(val, key) ==
    IF val # None THEN PyInt(val) ELSE default_values[key]

\* {key: ... for key, val in zip(default_values.keys(), input_values)}
Inputs(ivals) ==
    [key \in {Keys[i] : i \in 1..Min(Len(Keys), Len(ivals))} |->
        Coerce(ivals[IndexOf(key)], key)]

\* np.arange(lo, hi)
Arange(lo, hi) == [i \in 1..(IF hi > lo THEN hi - lo ELSE 0) |-> lo + i - 1]

\* Days with the end of the range one short
DaysExclusive(inp) == Arange(1, IntOf(inp.days_until_harvest))

\* np.arange(1, inputs['days_until_harvest'] + 1)
Days(inp) == Arange(1, IntOf(inp.days_until_harvest) + 1)

\* one row of features_sr
FeatureRowSr(day, inp) ==
    << D(day),
       inp.total_seed,
       inp.area,
       inp.total_shrimp,
       inp.total_weight,
       inp.feed_quantity,
       inp.morning_temperature,
       inp.evening_temperature,
       inp.morning_do,
       inp.evening_do,
       inp.morning_salinity,
       inp.evening_salinity,
       inp.morning_pH,
       inp.evening_pH,
       inp.nitrate,
       inp.nitrite,
       inp.alkalinity >>

FeaturesSr(ds, inp) == [i \in 1..Len(ds) |-> FeatureRowSr(ds[i], inp)]

\* FeatureRowAbw with area and feed_quantity exchanged
FeatureRowAbwSwapped(day, inp) == << D(day), inp.feed_quantity, inp.area >>

\* one row of features_abw
FeatureRowAbw(day, inp) == << D(day), inp.area, inp.feed_quantity >>

FeaturesAbw(ds, inp) == [i \in 1..Len(ds) |-> FeatureRowAbw(ds[i], inp)]

\* DailyBiomass without the grams-to-kilograms division
DailyBiomassInGrams(abw, inp) ==
    [i \in 1..Len(abw) |-> DMul(abw[i], inp.total_shrimp)]

\* abw_predictions / 1000 * inputs['total_shrimp']
DailyBiomass(abw, inp) ==
    [i \in 1..Len(abw) |-> DMul(DDiv(abw[i], D(1000)), inp.total_shrimp)]

RECURSIVE CumSumFrom(_, _, _)
\* the running totals of s from index i on, acc holding those before i
CumSumFrom(s, i, acc) ==
    IF i > Len(s) THEN acc
    ELSE CumSumFrom(s, i + 1,
            Append(acc, IF i = 1 THEN s[1] ELSE DAdd(acc[i - 1], s[i])))

\* np.cumsum(s): left-to-right running total
CumSum(s) == CumSumFrom(s, 1, <<>>)

\* daily_biomass * inputs['price_per_kg'] * usd_to_idr
DailyRevenue(daily, inp) ==
    [i \in 1..Len(daily) |->
        DMul(DMul(daily[i], inp.price_per_kg), D(usd_to_idr))]

\* np.cumsum(daily_biomass * inputs['price_per_kg'] * usd_to_idr)
CumulativeRevenue(daily, inp) == CumSum(DailyRevenue(daily, inp))

\* go.Figure(data=[go.Scatter(x=..., y=..., name=...)], layout=go.Layout(title=...))
Figure(x, y, name, title, ytitle) ==
    [x |-> x, y |-> y, mode |-> "lines", name |-> name, title |-> title,
     xtitle |-> "Days", ytitle |-> ytitle]

(***************************************************************************)
(* The format specification ",.2f".                                        *)
(***************************************************************************)
RECURSIVE DigitsOf(_)
\* decimal digits of a natural number, most significant first
DigitsOf(n) == IF n < 10 THEN <<n>> ELSE Append(DigitsOf(n \div 10), n % 10)

RECURSIVE DigitStr(_)
DigitStr(ds) ==
    IF ds = <<>> THEN "" ELSE ToString(Head(ds)) \o DigitStr(Tail(ds))

RECURSIVE Grouped(_)
\* digits with a comma before every group of three, counted from the right
Grouped(ds) ==
    IF Len(ds) <= 3 THEN DigitStr(ds)
    ELSE Grouped(SubSeq(ds, 1, Len(ds) - 3)) \o ","
            \o DigitStr(SubSeq(ds, Len(ds) - 2, Len(ds)))

\* [ip, cents]: the magnitude of a rounded to two decimals, ties to even;
\* ip is the sequence of digits of the integer part
Round2(a) ==
    LET mag == Abs(a.m)
    IN  IF a.e >= 0
        THEN [ip |-> IF mag = 0 THEN <<0>>
                     ELSE DigitsOf(mag) \o [i \in 1..a.e |-> 0],
              cents |-> 0]
        ELSE LET p  == Pow10(-a.e)
                 ip == mag \div p
                 fr == mag % p
             IN  IF -a.e <= 2
                 THEN [ip |-> DigitsOf(ip), cents |-> fr * Pow10(2 + a.e)]
                 ELSE LET k    == -a.e - 2
                          q    == fr \div Pow10(k)
                          r    == fr % Pow10(k)
                          half == 5 * Pow10(k - 1)
                          c    == IF r > half \/ (r = half /\ q % 2 = 1)
                                  THEN q + 1 ELSE q
                      IN  IF c = 100
                          THEN [ip |-> DigitsOf(ip + 1), cents |-> 0]
                          ELSE [ip |-> DigitsOf(ip), cents |-> c]

\* f"{a:,.2f}"
FormatAmount(a) ==
    LET r == Round2(a)
    IN  (IF a.m < 0 THEN "-" ELSE "") \o Grouped(r.ip) \o "."
            \o ToString(r.cents \div 10) \o ToString(r.cents % 10)

\* RevenueOutput reading the first element instead of the last
RevenueOutputFirst(inp, cumrev) ==
    "Forecasted Revenue by Day " \o ToString(IntOf(inp.days_until_harvest))
        \o ": IDR " \o FormatAmount(cumrev[1])

\* f"Forecasted Revenue by Day {inputs['days_until_harvest']}: IDR {cumulative_revenue_idr[-1]:,.2f}"
RevenueOutput(inp, cumrev) ==
    "Forecasted Revenue by Day " \o ToString(IntOf(inp.days_until_harvest))
        \o ": IDR " \o FormatAmount(cumrev[Len(cumrev)])

\* DefaultsAfterCall when inputs aliases default_values and is filled in place
DefaultsAliased(inp) == inp

\* default_values once a call is over: the callback only reads it
DefaultsAfterCall(inp) == default_values

(***************************************************************************)
(* Initial state: the module has been imported, no callback has run.       *)
(***************************************************************************)
Init ==
    /\ default_values = InitialDefaults
    /\ usd_to_idr = InitialUsdToIdr
    /\ model_sr \in SrStubs
    /\ model_abw \in AbwStubs
    /\ pc = "idle"
    /\ n_clicks = 0
    /\ input_values = <<>>
    /\ inputs = <<>>
    /\ days = <<>>
    /\ features_sr = <<>>
    /\ sr_predictions = <<>>
    /\ features_abw = <<>>
    /\ abw_predictions = <<>>
    /\ daily_biomass = <<>>
    /\ cumulative_biomass = <<>>
    /\ cumulative_revenue_idr = <<>>
    /\ error = ""
    /\ result = NoResult

(***************************************************************************)
(* One call update_output(nc, *ivals), from entry to return or raise.      *)
(***************************************************************************)
update_output(nc, ivals) ==
    /\ n_clicks' = nc
    /\ input_values' = ivals
    /\ inputs' = Inputs(ivals)
    /\ days' = Days(inputs')
    /\ features_sr' = FeaturesSr(days', inputs')
    /\ sr_predictions' = PredictSr(model_sr, features_sr')
    /\ features_abw' = FeaturesAbw(days', inputs')
    /\ abw_predictions' = PredictAbw(model_abw, features_abw')
    /\ daily_biomass' = DailyBiomass(abw_predictions', inputs')
    /\ cumulative_biomass' = CumSum(daily_biomass')
    /\ cumulative_revenue_idr' = CumulativeRevenue(daily_biomass', inputs')
    /\ IF Len(cumulative_revenue_idr') = 0
       THEN \* cumulative_revenue_idr[-1] on an empty array
            /\ pc' = "raised"
            /\ error' = "IndexError"
            /\ result' = NoResult
       ELSE /\ pc' = "returned"
            /\ error' = ""
            /\ result' =
                [sr_figure |->
                    Figure(days', sr_predictions', "Survival Rate",
                           "Predicted Survival Rate Over Time",
                           "Survival Rate (%)"),
                 abw_figure |->
                    Figure(days', abw_predictions', "Average Body Weight",
                           "Predicted Average Body Weight Over Time",
                           "Weight (grams)"),
                 biomass_figure |->
                    Figure(days', cumulative_biomass', "Cumulative Biomass",
                           "Cumulative Forecasted Biomass Over Time",
                           "Cumulative Biomass (kg)"),
                 revenue_figure |->
                    Figure(days', cumulative_revenue_idr',
                           "Cumulative Revenue (IDR)",
                           "Cumulative Forecasted Revenue Over Time (IDR)",
                           "Cumulative Revenue (IDR)"),
                 revenue_output |->
                    RevenueOutput(inputs', cumulative_revenue_idr')]
    /\ default_values' = DefaultsAfterCall(inputs')
    /\ UNCHANGED <<usd_to_idr, model_sr, model_abw>>

\* an input changed in the browser: the callback runs on the new values
InputChanged(mask, dh, ts, price, variant) ==
    /\ pc = "idle"
    /\ update_output(n_clicks, InputValues(mask, dh, ts, price, variant))

\* the Submit button was clicked: the callback runs again on the same values
SubmitClicked ==
    /\ pc # "idle"
    /\ n_clicks < MaxClicks
    /\ update_output(n_clicks + 1, input_values)

\* the response has been sent; the locals of the call are gone
Render ==
    /\ pc # "idle"
    /\ pc' = "idle"
    /\ input_values' = <<>>
    /\ inputs' = <<>>
    /\ days' = <<>>
    /\ features_sr' = <<>>
    /\ sr_predictions' = <<>>
    /\ features_abw' = <<>>
    /\ abw_predictions' = <<>>
    /\ daily_biomass' = <<>>
    /\ cumulative_biomass' = <<>>
    /\ cumulative_revenue_idr' = <<>>
    /\ error' = ""
    /\ result' = NoResult
    /\ UNCHANGED <<globals, n_clicks>>

Next ==
    \/ \E mask \in Masks, dh \in DaysChoices, ts \in ShrimpChoices,
          price \in PriceChoices, variant \in Variants :
            InputChanged(mask, dh, ts, price, variant)
    \/ SubmitClicked
    \/ Render

Spec == Init /\ [][Next]_vars


(***************************************************************************)
(* Properties.                                                             *)
(***************************************************************************)
called == pc # "idle"

RECURSIVE SumDown(_, _, _)
\* the partial sums s[Len(s)], s[Len(s)-1] + s[Len(s)], ..., down to index i,
\* appended to acc
SumDown(s, i, acc) ==
    IF i = 0 THEN acc
    ELSE SumDown(s, i - 1,
            Append(acc, IF acc = <<>> THEN s[i]
                        ELSE DAdd(s[i], acc[Len(acc)])))

\* the sum of all elements of s, added from the last one down
SumSeq(s) ==
    IF s = <<>> THEN D(0) ELSE SumDown(s, Len(s), <<>>)[Len(s)]

\* C1: after every call, for each day index d, daily_biomass[d] is
\* abw_predictions[d] / 1000 * total_shrimp, cumulative_biomass[d] is the
\* running sum of daily_biomass up to d, and cumulative_revenue_idr[d] is the
\* running sum of daily_biomass * price_per_kg * 15000 up to d; in particular
\* total_shrimp = 100, price_per_kg = 1 and predictions 10, 20, 30 give
\* 1, 2, 3 then 1, 3, 6 then 15000, 45000, 90000.
C1_BiomassAndRevenueSeries ==
    called =>
        LET rev(d) == DMul(DMul(daily_biomass[d], inputs.price_per_kg),
                           D(15000))
        IN  /\ Len(daily_biomass) = Len(abw_predictions)
            /\ Len(cumulative_biomass) = Len(abw_predictions)
            /\ Len(cumulative_revenue_idr) = Len(abw_predictions)
            /\ \A d \in 1..Len(abw_predictions) :
                /\ daily_biomass[d] =
                     DMul(DDiv(abw_predictions[d], D(1000)),
                          inputs.total_shrimp)
                /\ cumulative_biomass[d] =
                     IF d = 1 THEN daily_biomass[1]
                     ELSE DAdd(cumulative_biomass[d - 1], daily_biomass[d])
                /\ cumulative_revenue_idr[d] =
                     IF d = 1 THEN rev(1)
                     ELSE DAdd(cumulative_revenue_idr[d - 1], rev(d))
            /\ ( /\ inputs.total_shrimp = D(100)
                 /\ inputs.price_per_kg = D(1)
                 /\ abw_predictions = <<D(10), D(20), D(30)>> )
               => /\ daily_biomass = <<D(1), D(2), D(3)>>
                  /\ cumulative_biomass = <<D(1), D(3), D(6)>>
                  /\ cumulative_revenue_idr =
                        <<D(15000), D(45000), D(90000)>>

C1_Witness ==
    /\ pc = "returned"
    /\ inputs.total_shrimp = D(100)
    /\ inputs.price_per_kg = D(1)
    /\ abw_predictions = <<D(10), D(20), D(30)>>
    /\ cumulative_biomass = <<D(1), D(3), D(6)>>

\* C2: after every call whose days_until_harvest is not negative, days is
\* exactly 1..days_until_harvest in ascending order, and the prediction,
\* biomass and revenue series (and the x and y of every returned figure)
\* have length days_until_harvest.
C2_DaySeriesLength ==
    (called /\ inputs.days_until_harvest.m >= 0) =>
        LET n == IntOf(inputs.days_until_harvest)
        IN  /\ Len(days) = n
            /\ \A k \in 1..n : days[k] = k
            /\ Len(sr_predictions) = n
            /\ Len(abw_predictions) = n
            /\ Len(cumulative_biomass) = n
            /\ Len(cumulative_revenue_idr) = n
            /\ pc = "returned" =>
                \A f \in {"sr_figure", "abw_figure", "biomass_figure",
                          "revenue_figure"} :
                    /\ result[f].x = days
                    /\ Len(result[f].y) = n

C2_Witness ==
    /\ pc = "returned"
    /\ inputs.days_until_harvest = D(3)
    /\ days = <<1, 2, 3>>
    /\ Len(result.sr_figure.y) = 3

\* C3: a call with days_until_harvest = 0 completes, with empty series and a
\* summary string that shows zero revenue.
C3_ZeroDaysCompletes ==
    (called /\ inputs.days_until_harvest = D(0)) =>
        /\ pc = "returned"
        /\ days = <<>>
        /\ cumulative_biomass = <<>>
        /\ cumulative_revenue_idr = <<>>
        /\ result.revenue_output = "Forecasted Revenue by Day 0: IDR 0.00"

\* C4: a call whose total_shrimp or price_per_kg is negative fails with
\* InvalidInput and returns no output.
C4_NegativeRejected ==
    (called /\ (inputs.total_shrimp.m < 0 \/ inputs.price_per_kg.m < 0)) =>
        /\ pc = "raised"
        /\ error = "InvalidInput"
        /\ result = NoResult

\* C5: after every call whose ABW predictions are all non-negative,
\* cumulative_biomass never decreases from one day to the next.
C5_BiomassMonotone ==
    (called /\ \A d \in 1..Len(abw_predictions) : abw_predictions[d].m >= 0) =>
        \A d \in 1..(Len(cumulative_biomass) - 1) :
            DLe(cumulative_biomass[d], cumulative_biomass[d + 1])

\* C6: after every call with at least one day, the last cumulative revenue
\* equals the sum of all daily biomass times price_per_kg times 15000, which
\* is the last cumulative biomass times price_per_kg times 15000, and the
\* summary string shows that amount (to two decimals, grouped in thousands)
\* for day days_until_harvest.
C6_FinalRevenue ==
    (called /\ Len(days) >= 1) =>
        LET n     == Len(days)
            final == DMul(DMul(SumSeq(daily_biomass), inputs.price_per_kg),
                          D(15000))
        IN  /\ pc = "returned"
            /\ cumulative_revenue_idr[n] = final
            /\ cumulative_revenue_idr[n] =
                 DMul(DMul(cumulative_biomass[n], inputs.price_per_kg),
                      D(15000))
            /\ result.revenue_output =
                 "Forecasted Revenue by Day " \o ToString(n) \o ": IDR "
                    \o FormatAmount(final)
            /\ final = D(90000) =>
                 result.revenue_output =
                    "Forecasted Revenue by Day " \o ToString(n)
                        \o ": IDR 90,000.00"

C6_Witness ==
    /\ pc = "returned"
    /\ Len(days) = 3
    /\ cumulative_revenue_idr[3] = D(90000)
    /\ result.revenue_output = "Forecasted Revenue by Day 3: IDR 90,000.00"

\* C7: no call changes default_values, usd_to_idr or the loaded models, and
\* a call that follows another with the same input values ends the same way,
\* with the same locals and the same returned outputs.
C7_NoMutationAcrossRequests ==
    [][ /\ default_values' = default_values
        /\ usd_to_idr' = usd_to_idr
        /\ model_sr' = model_sr
        /\ model_abw' = model_abw
        /\ (called /\ pc' # "idle" /\ input_values' = input_values) =>
              /\ pc' = pc
              /\ error' = error
              /\ result' = result
              /\ locals' = locals ]_vars

C7_Witness ==
    /\ pc = "returned"
    /\ n_clicks = 1
    /\ \E i \in 1..Len(Keys) : input_values[i] = None
    /\ default_values = InitialDefaults

\* C8: after every call, inputs has exactly the 19 named fields, and every
\* field whose submitted value is None holds the default of that field.
C8_ParameterSetDefaults ==
    called =>
        /\ DOMAIN inputs = KeySet
        /\ Cardinality(DOMAIN inputs) = 19
        /\ Len(input_values) = 19
        /\ \A i \in 1..19 :
              input_values[i] = None
                  => inputs[Keys[i]] = InitialDefaults[Keys[i]]

C8_Witness ==
    /\ called
    /\ input_values[IndexOf("morning_do")] = None
    /\ inputs.morning_do = Lit(72, -1)
    /\ input_values[IndexOf("nitrate")] # None
    /\ inputs.nitrate # Lit(25, -2)

\* C9: after every call, row k of features_sr is the 17-tuple (k, total_seed,
\* area, total_shrimp, total_weight, feed_quantity, morning_temperature,
\* evening_temperature, morning_do, evening_do, morning_salinity,
\* evening_salinity, morning_pH, evening_pH, nitrate, nitrite, alkalinity)
\* and row k of features_abw is the 3-tuple (k, area, feed_quantity), one row
\* per day; cycle_age_days, days_until_harvest and price_per_kg are in neither.
C9_FeatureRows ==
    called =>
        /\ Len(features_sr) = Len(days)
        /\ Len(features_abw) = Len(days)
        /\ \A k \in 1..Len(days) :
            /\ days[k] = k
            /\ Len(features_sr[k]) = 17
            /\ features_sr[k] =
                 << D(k), inputs["total_seed"], inputs["area"],
                    inputs["total_shrimp"], inputs["total_weight"],
                    inputs["feed_quantity"], inputs["morning_temperature"],
                    inputs["evening_temperature"], inputs["morning_do"],
                    inputs["evening_do"], inputs["morning_salinity"],
                    inputs["evening_salinity"], inputs["morning_pH"],
                    inputs["evening_pH"], inputs["nitrate"],
                    inputs["nitrite"], inputs["alkalinity"] >>
            /\ features_abw[k] =
                 << D(k), inputs["area"], inputs["feed_quantity"] >>

C9_Witness ==
    /\ pc = "returned"
    /\ Len(features_sr) = 2
    /\ inputs.cycle_age_days = D(3)
    /\ features_abw[2] = << D(2), D(5), D(8) >>
    /\ features_sr[2][17] = D(19)

\* C10: after every call, a field whose submitted value equals the default of
\* that field holds the same entry as if the field had been left missing,
\* namely the default itself (7.2 stays 7.2, 0.25 stays 0.25).
C10_SubmittedDefaultSameAsMissing ==
    called =>
        \A i \in 1..Len(input_values) :
            input_values[i] = InitialDefaults[Keys[i]]
                => inputs[Keys[i]] = InitialDefaults[Keys[i]]

====
